---- MODULE Spec2Model ----
(***************************************************************************)
(* Model of package gomonitor (gomonitor.go): a CheckResult with its exit  *)
(* code, message, performance data map, PerfOrder slice and the private    *)
(* perfIndexMap, and the operations on it.                                 *)
(*                                                                         *)
(* Go slices and perfIndexMap are 0-based; TLA+ sequences are 1-based, so  *)
(* the element at Go index i of a slice s is s[i + 1].                     *)
(* A float64 field of a metric is modelled by the integer n that stands    *)
(* for the value n / 8 (exactly representable in binary floating point).   *)
(***************************************************************************)
EXTENDS Integers, Sequences, FiniteSets, TLC

(* ------------------------------ bounds -------------------------------- *)

\* number of distinct metric names the callers use
MaxNames == 3

NamePool == <<"a", "b", "c", "d", "e">>

Names == {NamePool[i] : i \in 1..MaxNames}

MetricPool ==
  << [Value |-> 9,  Warn |-> 8,  Crit |-> 16, Min |-> 0,  Max |-> 80, UnitOM |-> "ms"],
     [Value |-> -3, Warn |-> 0,  Crit |-> 4,  Min |-> -8, Max |-> 8,  UnitOM |-> ""],
     [Value |-> 0,  Warn |-> 20, Crit |-> 12, Min |-> 5,  Max |-> 1,  UnitOM |-> "%"],
     [Value |-> 340, Warn |-> 1, Crit |-> 2,  Min |-> 3,  Max |-> 7,  UnitOM |-> "B"] >>

\* the PerformanceMetric values the callers pass
Metrics == {MetricPool[1], MetricPool[2]}

\* the (exit code, message) pairs the callers pass to SetResult
Results == {<<100, "msg">>}

(* ---------------------------- ExitCode -------------------------------- *)

OK == 0

Warning == 1

Critical == 2

Unknown == 3

DigitChars == <<"0", "1", "2", "3", "4", "5", "6", "7", "8", "9">>

RECURSIVE NatToStr(_)
\* decimal digits of a natural number, as fmt's %d prints them
NatToStr(n) ==
  IF n < 10 THEN DigitChars[n + 1]
  ELSE NatToStr(n \div 10) \o DigitChars[(n % 10) + 1]

\* fmt's %d of an integer
IntToStr(n) == IF n < 0 THEN "-" \o NatToStr(-n) ELSE NatToStr(n)

\* String that names every value outside OK..Unknown "Unknown"
ExitCodeString_UnknownDefault(ec) ==
  CASE ec = OK -> "OK"
    [] ec = Warning -> "Warning"
    [] ec = Critical -> "Critical"
    [] OTHER -> "Unknown"

\* func (ec ExitCode) String() string
ExitCodeString(ec) ==
  CASE ec = OK -> "OK"
    [] ec = Warning -> "Warning"
    [] ec = Critical -> "Critical"
    [] ec = Unknown -> "Unknown"
    [] OTHER -> "ExitCode(" \o IntToStr(ec) \o ")"

\* Int that maps every value outside OK..Unknown to Unknown's 3
ExitCodeInt_UnknownDefault(ec) ==
  CASE ec = OK -> 0
    [] ec = Warning -> 1
    [] ec = Critical -> 2
    [] OTHER -> 3

\* func (ec ExitCode) Int() int
ExitCodeInt(ec) ==
  CASE ec = OK -> 0
    [] ec = Warning -> 1
    [] ec = Critical -> 2
    [] ec = Unknown -> 3
    [] OTHER -> ec

(* ------------------------------ Go maps ------------------------------- *)

\* make(map[K]V): the empty map
EmptyMap == [k \in {} |-> 0]

\* m[k] = v
MapPut(m, k, v) == [x \in (DOMAIN m) \cup {k} |-> IF x = k THEN v ELSE m[x]]

\* delete(m, k)
MapDelete(m, k) == [x \in (DOMAIN m) \ {k} |-> m[x]]

\* the set of elements of a slice
Range(s) == {s[i] : i \in 1..Len(s)}

(* ------------------------------- fmt ---------------------------------- *)

\* A format string is modelled by the sequence of its pieces, each a verb
\* ("%s") or literal text: "%s - %s" is <<"%s", " - ", "%s">>.
DefaultFormat == <<"%s", " - ", "%s">>

RECURSIVE ExtraArgs(_)
\* the arguments no verb has taken, as fmt lists them: string=a, string=b
ExtraArgs(args) ==
  IF Len(args) = 1 THEN "string=" \o Head(args)
  ELSE "string=" \o Head(args) \o ", " \o ExtraArgs(Tail(args))

RECURSIVE Sprintf(_, _)
\* fmt.Sprintf(format, args...) for string arguments: each %s takes the next
\* argument, a verb without an argument prints %!s(MISSING), and arguments
\* left over at the end are reported as %!(EXTRA ...)
Sprintf(format, args) ==
  IF format = <<>>
  THEN IF args = <<>> THEN "" ELSE "%!(EXTRA " \o ExtraArgs(args) \o ")"
  ELSE IF Head(format) = "%s"
       THEN IF args = <<>>
            THEN "%!s(MISSING)" \o Sprintf(Tail(format), args)
            ELSE Head(args) \o Sprintf(Tail(format), Tail(args))
       ELSE Head(format) \o Sprintf(Tail(format), args)

\* |x| rounded to a whole number of hundredths, for x = n / 8: n * 12.5,
\* an exact tie going to the even neighbour as strconv rounds
Hundredths(n) ==
  LET a == IF n < 0 THEN -n ELSE n
      q == (a * 25) \div 2
  IN  IF (a * 25) % 2 = 0 THEN q
      ELSE IF q % 2 = 1 THEN q + 1 ELSE q

\* a rendering that drops a final zero of the fraction, as %v would: 42.5
FormatFloat2_Shortest(n) ==
  LET h == Hundredths(n)
      frac == h % 100
  IN  (IF n < 0 THEN "-" ELSE "") \o NatToStr(h \div 100) \o "."
        \o DigitChars[(frac \div 10) + 1]
        \o (IF frac % 10 = 0 THEN "" ELSE DigitChars[(frac % 10) + 1])

\* fmt's %.2f of the float64 n / 8
FormatFloat2(n) ==
  LET h == Hundredths(n)
      frac == h % 100
  IN  (IF n < 0 THEN "-" ELSE "") \o NatToStr(h \div 100) \o "."
        \o DigitChars[(frac \div 10) + 1] \o DigitChars[(frac % 10) + 1]

(* ----------------------------- CheckResult ---------------------------- *)

\* the zero value of PerformanceMetric, which reading an absent map key yields
ZeroMetric == [Value |-> 0, Warn |-> 0, Crit |-> 0, Min |-> 0, Max |-> 0, UnitOM |-> ""]

\* cr.PerformanceData[key] as an expression
MapGet(m, k) == IF k \in DOMAIN m THEN m[k] ELSE ZeroMetric

\* NewCheckResult without the make(...) and []string{} initialisers
NewCheckResult_NilFields ==
  [ ExitCode        |-> OK,
    Message         |-> "",
    Format          |-> DefaultFormat,
    PerformanceData |-> EmptyMap,
    PerfOrder       |-> <<>>,
    perfIndexMap    |-> EmptyMap,
    nil             |-> {"PerformanceData", "PerfOrder", "perfIndexMap"} ]

\* Fields of a CheckResult value. nil is the set of the reference-typed fields
\* that are nil (a nil map reads as empty, a nil slice has length 0).
\* NewCheckResult() *CheckResult
NewCheckResult ==
  [ ExitCode        |-> OK,
    Message         |-> "",
    Format          |-> DefaultFormat,
    PerformanceData |-> EmptyMap,
    PerfOrder       |-> <<>>,
    perfIndexMap    |-> EmptyMap,
    nil             |-> {} ]

\* The outcome of a method call: the receiver afterwards, and whether the
\* call ended in a run-time panic (the fields written before the panic stay
\* written).
Returned(c) == [cr |-> c, panic |-> FALSE]

Panicked(c) == [cr |-> c, panic |-> TRUE]

\* SetResult that appends msg to the message already stored
SetResult_AppendsMessage(c, ec, msg) ==
  Returned([c EXCEPT !.ExitCode = ec, !.Message = @ \o msg])

\* SetResult that stores Unknown for an exit code outside OK..Unknown
SetResult_ClampsCode(c, ec, msg) ==
  Returned([c EXCEPT !.ExitCode = IF ec \in OK..Unknown THEN ec ELSE Unknown,
                     !.Message = msg])

\* func (cr *CheckResult) SetResult(ec ExitCode, msg string)
SetResult(c, ec, msg) ==
  Returned([c EXCEPT !.ExitCode = ec, !.Message = msg])

\* AddPerformanceData without the exists test: the name is appended on every call
AddPerformanceData_Reappend(c, metricName, metric) ==
  LET order2 == Append(c.PerfOrder, metricName)
  IN  Returned([c EXCEPT !.PerfOrder = order2,
                         !.perfIndexMap = MapPut(@, metricName, Len(order2) - 1),
                         !.PerformanceData = MapPut(@, metricName, metric),
                         !.nil = {}])

\* AddPerformanceData that keeps the metric a stored name already has
AddPerformanceData_KeepsFirst(c, metricName, metric) ==
  IF metricName \in DOMAIN c.PerformanceData
  THEN Returned(c)
  ELSE AddPerformanceData_Reappend(c, metricName, metric)

\* AddPerformanceData whose nil test makes only the PerformanceData map
AddPerformanceData_OnlyMapInit(c, metricName, metric) ==
  LET c1 == IF "PerformanceData" \in c.nil
            THEN [c EXCEPT !.PerformanceData = EmptyMap,
                           !.nil = @ \ {"PerformanceData"}]
            ELSE c
      order2 == Append(c1.PerfOrder, metricName)
  IN  IF metricName \in DOMAIN c1.PerformanceData
      THEN Returned([c1 EXCEPT !.PerformanceData = MapPut(@, metricName, metric)])
      ELSE IF "perfIndexMap" \in c1.nil
           THEN Panicked([c1 EXCEPT !.PerfOrder = order2,
                                    !.nil = @ \ {"PerfOrder"}])
           ELSE Returned([c1 EXCEPT !.PerfOrder = order2,
                                    !.nil = @ \ {"PerfOrder"},
                                    !.perfIndexMap = MapPut(@, metricName, Len(order2) - 1),
                                    !.PerformanceData = MapPut(@, metricName, metric)])

\* func (cr *CheckResult) AddPerformanceData(metricName string, metric PerformanceMetric)
AddPerformanceData(c, metricName, metric) ==
  LET c1 == IF "PerformanceData" \in c.nil
            THEN [c EXCEPT !.PerformanceData = EmptyMap,
                           !.PerfOrder = <<>>,
                           !.perfIndexMap = EmptyMap,
                           !.nil = {}]
            ELSE c
      exists == metricName \in DOMAIN c1.PerformanceData
      order2 == Append(c1.PerfOrder, metricName)
  IN  IF exists
      THEN Returned([c1 EXCEPT !.PerformanceData = MapPut(@, metricName, metric)])
      ELSE IF "perfIndexMap" \in c1.nil
           \* assignment to an entry of a nil map, after the append
           THEN Panicked([c1 EXCEPT !.PerfOrder = order2,
                                    !.nil = @ \ {"PerfOrder"}])
           ELSE Returned([c1 EXCEPT !.PerfOrder = order2,
                                    !.nil = @ \ {"PerfOrder"},
                                    !.perfIndexMap = MapPut(@, metricName, Len(order2) - 1),
                                    !.PerformanceData = MapPut(@, metricName, metric)])

\* UpdatePerformanceData that ignores a name that is not stored
UpdatePerformanceData_OnlyStored(c, metricName, metric) ==
  IF metricName \in DOMAIN c.PerformanceData
  THEN Returned([c EXCEPT !.PerformanceData = MapPut(@, metricName, metric)])
  ELSE Returned(c)

\* UpdatePerformanceData that also appends the name to PerfOrder
UpdatePerformanceData_Reappend(c, metricName, metric) ==
  Returned([c EXCEPT !.PerformanceData = MapPut(@, metricName, metric),
                     !.PerfOrder = Append(@, metricName)])

\* func (cr *CheckResult) UpdatePerformanceData(metricName string, metric PerformanceMetric)
UpdatePerformanceData(c, metricName, metric) ==
  IF "PerformanceData" \in c.nil
  THEN Panicked(c)   \* assignment to an entry of a nil map
  ELSE Returned([c EXCEPT !.PerformanceData = MapPut(@, metricName, metric)])

\* DeletePerformanceData as it was before the order was tracked: the map
\* entry is deleted, PerfOrder and perfIndexMap are left alone
DeletePerformanceData_DataOnly(c, metricName) ==
  Returned([c EXCEPT !.PerformanceData = MapDelete(@, metricName)])

\* DeletePerformanceData without delete(cr.PerformanceData, metricName)
DeletePerformanceData_KeepsData(c, metricName) ==
  IF metricName \notin DOMAIN c.perfIndexMap \/ c.PerfOrder = <<>>
  THEN Returned(c)
  ELSE LET index == c.perfIndexMap[metricName]
           n == Len(c.PerfOrder)
           lastElement == c.PerfOrder[n]
           swapped == [c.PerfOrder EXCEPT ![index + 1] = lastElement]
       IN  Returned([c EXCEPT
             !.perfIndexMap = MapPut(MapDelete(@, metricName), lastElement, index),
             !.PerfOrder = SubSeq(swapped, 1, n - 1)])

\* DeletePerformanceData without cr.PerfOrder[index] = lastElement: the
\* slice is only shortened
DeletePerformanceData_NoSwap(c, metricName) ==
  IF metricName \notin DOMAIN c.PerformanceData
  THEN Returned(c)
  ELSE Returned([c EXCEPT
         !.PerformanceData = MapDelete(@, metricName),
         !.perfIndexMap = MapDelete(@, metricName),
         !.PerfOrder = IF @ = <<>> THEN @ ELSE SubSeq(@, 1, Len(@) - 1)])

\* DeletePerformanceData without cr.perfIndexMap[lastElement] = index: the
\* moved name keeps the index of the slot it left
DeletePerformanceData_NoReindex(c, metricName) ==
  IF metricName \notin DOMAIN c.PerformanceData
  THEN Returned(c)
  ELSE
    LET c1 == [c EXCEPT !.PerformanceData = MapDelete(@, metricName)]
    IN  IF metricName \notin DOMAIN c1.perfIndexMap
        THEN Returned(c1)
        ELSE
          LET index == c1.perfIndexMap[metricName]
              c2 == [c1 EXCEPT !.perfIndexMap = MapDelete(@, metricName)]
              n == Len(c2.PerfOrder)
          IN  IF n = 0 \/ index < 0 \/ index >= n
              THEN Panicked(c2)
              ELSE LET moved == [c2.PerfOrder EXCEPT ![index + 1] = c2.PerfOrder[n]]
                   IN  Returned([c2 EXCEPT !.PerfOrder = SubSeq(moved, 1, n - 1)])

\* func (cr *CheckResult) DeletePerformanceData(metricName string)
DeletePerformanceData(c, metricName) ==
  IF metricName \notin DOMAIN c.PerformanceData
  THEN Returned(c)
  ELSE
    LET c1 == [c EXCEPT !.PerformanceData = MapDelete(@, metricName)]
    IN  IF metricName \notin DOMAIN c1.perfIndexMap
        THEN Returned(c1)
        ELSE
          LET index == c1.perfIndexMap[metricName]
              c2 == [c1 EXCEPT !.perfIndexMap = MapDelete(@, metricName)]
              n == Len(c2.PerfOrder)
          IN  IF n = 0
              THEN Panicked(c2)          \* PerfOrder[len(PerfOrder)-1], index -1
              ELSE IF index < 0 \/ index >= n
              THEN Panicked(c2)          \* PerfOrder[index], index out of range
              ELSE
                LET lastElement == c2.PerfOrder[n]
                    swapped == [c2.PerfOrder EXCEPT ![index + 1] = lastElement]
                IN  Returned([c2 EXCEPT
                      !.perfIndexMap = MapPut(@, lastElement, index),
                      !.PerfOrder = SubSeq(swapped, 1, n - 1)])

\* a metric token without the space that ends it
MetricStr_NoTrailingSpace(key, metric) ==
  "'" \o key \o "'=" \o FormatFloat2(metric.Value) \o metric.UnitOM
    \o ";" \o FormatFloat2(metric.Warn) \o ";" \o FormatFloat2(metric.Crit)
    \o ";" \o FormatFloat2(metric.Min) \o ";" \o FormatFloat2(metric.Max)

\* the "'%s'=%.2f%s;%.2f;%.2f;%.2f;%.2f " of one metric
MetricStr(key, metric) ==
  "'" \o key \o "'=" \o FormatFloat2(metric.Value) \o metric.UnitOM
    \o ";" \o FormatFloat2(metric.Warn) \o ";" \o FormatFloat2(metric.Crit)
    \o ";" \o FormatFloat2(metric.Min) \o ";" \o FormatFloat2(metric.Max) \o " "

RECURSIVE PerformanceDataStr(_, _)
\* the loop over cr.PerfOrder in FormatResult
PerformanceDataStr(order, data) ==
  IF order = <<>> THEN ""
  ELSE MetricStr(Head(order), MapGet(data, Head(order)))
         \o PerformanceDataStr(Tail(order), data)

\* FormatResult that appends the pipe section whether metrics are stored or not
FormatResult_AlwaysPipe(c) ==
  Sprintf(c.Format, <<ExitCodeString(c.ExitCode), c.Message>>)
    \o " | " \o PerformanceDataStr(c.PerfOrder, c.PerformanceData)

\* func (cr *CheckResult) FormatResult() string
FormatResult(c) ==
  LET output == Sprintf(c.Format, <<ExitCodeString(c.ExitCode), c.Message>>)
  IN  IF Cardinality(DOMAIN c.PerformanceData) > 0
      THEN output \o " | " \o PerformanceDataStr(c.PerfOrder, c.PerformanceData)
      ELSE output

(* --------------------------- the state machine ------------------------ *)

VARIABLES
  cr,          \* the CheckResult the caller owns
  pc,          \* "running", or "exit" (in SendResult, before os.Exit), or
               \* terminated: "exited" (os.Exit), "panicked" (run-time panic)
  output,      \* the local variable output of SendResult
  stdout,      \* what has been written to standard output
  exitStatus,  \* <<>> while the process runs, <<code>> once os.Exit was called
  lastCall,    \* the most recent method call: its name, arguments, result
  firstAdded,  \* history: the names in the order of their first
               \* AddPerformanceData call, kept while noDelete holds
  noDelete,    \* history: DeletePerformanceData has not been called so far
  deleted,     \* history: the names whose latest call was a DeletePerformanceData
  lastSet      \* history: the arguments <<ec, msg>> of the latest SetResult
               \* call, <<OK, "">> while there was none

vars == <<cr, pc, output, stdout, exitStatus, lastCall, firstAdded, noDelete,
          deleted, lastSet>>

Call(op, name, metric, ret) == [op |-> op, name |-> name, metric |-> metric, ret |-> ret]

Init ==
  /\ cr = NewCheckResult
  /\ pc = "running"
  /\ output = ""
  /\ stdout = <<>>
  /\ exitStatus = <<>>
  /\ lastCall = Call("NewCheckResult", "", ZeroMetric, "")
  /\ firstAdded = <<>>
  /\ noDelete = TRUE
  /\ deleted = {}
  /\ lastSet = <<OK, "">>

\* the caller's state after a method call with outcome r
Outcome(r) ==
  /\ cr' = r.cr
  /\ pc' = IF r.panic THEN "panicked" ELSE pc
  /\ UNCHANGED <<output, stdout, exitStatus>>

CallSetResult(ec, msg) ==
  /\ pc = "running"
  /\ Outcome(SetResult(cr, ec, msg))
  /\ lastCall' = Call("SetResult", "", ZeroMetric, "")
  /\ lastSet' = <<ec, msg>>
  /\ UNCHANGED <<firstAdded, noDelete, deleted>>

CallAddPerformanceData(metricName, metric) ==
  /\ pc = "running"
  /\ Outcome(AddPerformanceData(cr, metricName, metric))
  /\ lastCall' = Call("AddPerformanceData", metricName, metric, "")
  /\ firstAdded' = IF noDelete /\ metricName \notin Range(firstAdded)
                   THEN Append(firstAdded, metricName)
                   ELSE firstAdded
  /\ deleted' = deleted \ {metricName}
  /\ UNCHANGED <<noDelete, lastSet>>

CallUpdatePerformanceData(metricName, metric) ==
  /\ pc = "running"
  /\ Outcome(UpdatePerformanceData(cr, metricName, metric))
  /\ lastCall' = Call("UpdatePerformanceData", metricName, metric, "")
  /\ deleted' = deleted \ {metricName}
  /\ UNCHANGED <<firstAdded, noDelete, lastSet>>

CallDeletePerformanceData(metricName) ==
  /\ pc = "running"
  /\ Outcome(DeletePerformanceData(cr, metricName))
  /\ lastCall' = Call("DeletePerformanceData", metricName, ZeroMetric, "")
  /\ firstAdded' = <<>>
  /\ noDelete' = FALSE
  /\ deleted' = deleted \cup {metricName}
  /\ UNCHANGED lastSet

\* a FormatResult that empties PerfOrder as it walks it
CallFormatResult_Drains ==
  /\ pc = "running"
  /\ lastCall' = Call("FormatResult", "", ZeroMetric, FormatResult(cr))
  /\ cr' = [cr EXCEPT !.PerfOrder = <<>>]
  /\ UNCHANGED <<pc, output, stdout, exitStatus, firstAdded, noDelete, deleted, lastSet>>

CallFormatResult ==
  /\ pc = "running"
  /\ lastCall' = Call("FormatResult", "", ZeroMetric, FormatResult(cr))
  /\ UNCHANGED <<cr, pc, output, stdout, exitStatus, firstAdded, noDelete, deleted, lastSet>>

\* a SendResult that writes the string without the newline, as fmt.Print would
SendResult_NoNewline ==
  /\ pc = "running"
  /\ output' = FormatResult(cr)
  /\ stdout' = Append(stdout, output')
  /\ pc' = "exit"
  /\ lastCall' = Call("SendResult", "", ZeroMetric, "")
  /\ UNCHANGED <<cr, exitStatus, firstAdded, noDelete, deleted, lastSet>>

\* SendResult up to its last line: output := cr.FormatResult(); fmt.Println(output)
SendResult ==
  /\ pc = "running"
  /\ output' = FormatResult(cr)
  /\ stdout' = Append(stdout, output' \o "\n")
  /\ pc' = "exit"
  /\ lastCall' = Call("SendResult", "", ZeroMetric, "")
  /\ UNCHANGED <<cr, exitStatus, firstAdded, noDelete, deleted, lastSet>>

\* the last line of SendResult: os.Exit(cr.ExitCode.Int())
SendResultExit ==
  /\ pc = "exit"
  /\ exitStatus' = <<ExitCodeInt(cr.ExitCode)>>
  /\ pc' = "exited"
  /\ UNCHANGED <<cr, output, stdout, lastCall, firstAdded, noDelete, deleted, lastSet>>

Next ==
  \/ \E r \in Results : CallSetResult(r[1], r[2])
  \/ \E metricName \in Names, metric \in Metrics :
        CallAddPerformanceData(metricName, metric)
  \/ \E metricName \in Names, metric \in Metrics :
        CallUpdatePerformanceData(metricName, metric)
  \/ \E metricName \in Names : CallDeletePerformanceData(metricName)
  \/ CallFormatResult
  \/ SendResult
  \/ SendResultExit

Spec == Init /\ [][Next]_vars

(* ------------- a report that was not built by NewCheckResult ---------- *)

\* the zero value CheckResult{}: exit code 0, empty message, empty format,
\* nil maps and a nil slice
ZeroCheckResult ==
  [ ExitCode        |-> 0,
    Message         |-> "",
    Format          |-> <<>>,
    PerformanceData |-> EmptyMap,
    PerfOrder       |-> <<>>,
    perfIndexMap    |-> EmptyMap,
    nil             |-> {"PerformanceData", "PerfOrder", "perfIndexMap"} ]

InitZero ==
  /\ cr = ZeroCheckResult
  /\ pc = "running"
  /\ output = ""
  /\ stdout = <<>>
  /\ exitStatus = <<>>
  /\ lastCall = Call("CheckResult{}", "", ZeroMetric, "")
  /\ firstAdded = <<>>
  /\ noDelete = TRUE
  /\ deleted = {}
  /\ lastSet = <<OK, "">>

\* the metric calls and FormatResult
NextZero ==
  \/ \E metricName \in Names, metric \in Metrics :
        CallAddPerformanceData(metricName, metric)
  \/ \E metricName \in Names, metric \in Metrics :
        CallUpdatePerformanceData(metricName, metric)
  \/ \E metricName \in Names : CallDeletePerformanceData(metricName)
  \/ CallFormatResult

SpecZero == InitZero /\ [][NextZero]_vars

(* ------------- a report built either way, metric calls only ----------- *)

\* the report is NewCheckResult() or the zero value CheckResult{}
InitEither == Init \/ InitZero

SpecEither == InitEither /\ [][NextZero]_vars

(* ------ many exit codes, messages and metric values, one metric name --- *)

\* the exit codes the callers pass to SetResult: the four known ones, and
\* others below, between and above them
ExitCodes == {-12, -1, 0, 1, 2, 3, 4, 100, 255, 256}

\* the messages the callers pass to SetResult
Messages == {"", "msg"}

\* the PerformanceMetric values the callers pass
ManyMetrics == {MetricPool[i] : i \in 1..Len(MetricPool)}

NextResult ==
  \/ \E ec \in ExitCodes, msg \in Messages : CallSetResult(ec, msg)
  \/ \E metric \in ManyMetrics : CallAddPerformanceData(NamePool[1], metric)
  \/ \E metric \in ManyMetrics : CallUpdatePerformanceData(NamePool[1], metric)
  \/ CallDeletePerformanceData(NamePool[1])
  \/ CallFormatResult
  \/ SendResult
  \/ SendResultExit

SpecResult == Init /\ [][NextResult]_vars

\* SendResult runs on: after fmt.Println returns, os.Exit is called
SpecResultFair == SpecResult /\ WF_vars(SendResultExit)

(* ------------------------------ the claims ---------------------------- *)

\* x occurs before y in the slice s
Precedes(s, x, y) == \E i, j \in 1..Len(s) : i < j /\ s[i] = x /\ s[j] = y

\* the slice s holds no element twice
NoDuplicates(s) == \A i, j \in 1..Len(s) : s[i] = s[j] => i = j

\* the process has not died of a run-time panic
Alive == pc # "panicked"

\* C1: in every state reached from NewCheckResult() by the public calls,
\* PerfOrder holds each key of PerformanceData exactly once and no other name.
C1_OrderMatchesData ==
  Alive => /\ Range(cr.PerfOrder) = DOMAIN cr.PerformanceData
           /\ NoDuplicates(cr.PerfOrder)

\* C2: DeletePerformanceData(name) with name in PerfOrder is a stable
\* removal: any two other names that were in PerfOrder are still in it, in
\* the same relative order.
C2_DeleteIsStable ==
  [][ ( /\ lastCall'.op = "DeletePerformanceData"
        /\ lastCall'.name \in Range(cr.PerfOrder)
        /\ pc' = "running" )
      => \A x, y \in Range(cr.PerfOrder) \ {lastCall'.name} :
           /\ x \in Range(cr'.PerfOrder)
           /\ Precedes(cr.PerfOrder, x, y) <=> Precedes(cr'.PerfOrder, x, y) ]_vars

\* C3: no sequence of SetResult, Add-, Update-, DeletePerformanceData and
\* FormatResult calls on a report from NewCheckResult() ends in a run-time
\* failure.
C3_NoRuntimeFailure == pc # "panicked"

\* C4: while only Add and Update calls (no Delete) have been made on a report
\* from NewCheckResult(), PerfOrder is the sequence of the names in the order
\* of their first AddPerformanceData call.
C4_OrderIsFirstAdded ==
  (noDelete /\ Alive) => cr.PerfOrder = firstAdded

\* C5: AddPerformanceData with a name that is already stored overwrites the
\* stored metric with the argument and leaves PerfOrder as it was; so after
\* two Add calls in a row with one name the second argument is stored.
C5_AddStoredOverwrites ==
  [][ /\ ( /\ pc = "running"
           /\ lastCall'.op = "AddPerformanceData"
           /\ lastCall'.name \in DOMAIN cr.PerformanceData )
         => /\ pc' = "running"
            /\ lastCall'.name \in DOMAIN cr'.PerformanceData
            /\ cr'.PerformanceData[lastCall'.name] = lastCall'.metric
            /\ cr'.PerfOrder = cr.PerfOrder
      /\ ( /\ pc = "running"
           /\ lastCall.op = "AddPerformanceData"
           /\ lastCall'.op = "AddPerformanceData"
           /\ lastCall'.name = lastCall.name )
         => /\ cr'.PerformanceData[lastCall'.name] = lastCall'.metric
            /\ cr'.PerfOrder = cr.PerfOrder ]_vars

\* an Add of the stored name "a", which is not the last of PerfOrder, has
\* replaced its metric
C5_Witness ==
  /\ pc = "running"
  /\ lastCall.op = "AddPerformanceData"
  /\ lastCall.name = "a"
  /\ lastCall.metric = MetricPool[2]
  /\ cr.PerfOrder = <<"a", "b">>
  /\ DOMAIN cr.PerformanceData = {"a", "b"}
  /\ cr.PerformanceData["a"] = MetricPool[2]

\* C6: an AddPerformanceData(name, m) whose name was last used in a
\* DeletePerformanceData call (other names may have been used since) puts
\* name at the end of PerfOrder, and nowhere else in it, and stores m.
C6_DeleteThenAddAppends ==
  [][ ( /\ pc = "running"
        /\ lastCall'.op = "AddPerformanceData"
        /\ lastCall'.name \in deleted )
      => /\ pc' = "running"
         /\ cr'.PerfOrder # <<>>
         /\ cr'.PerfOrder[Len(cr'.PerfOrder)] = lastCall'.name
         /\ \A i \in 1..(Len(cr'.PerfOrder) - 1) : cr'.PerfOrder[i] # lastCall'.name
         /\ lastCall'.name \in DOMAIN cr'.PerformanceData
         /\ cr'.PerformanceData[lastCall'.name] = lastCall'.metric ]_vars

\* "a" was deleted and added again: it is the only stored name, a Delete was
\* called, and the latest call of every name was not a Delete
C6_Witness ==
  /\ pc = "running"
  /\ lastCall.op = "AddPerformanceData"
  /\ lastCall.name = "a"
  /\ ~noDelete
  /\ deleted = {}
  /\ DOMAIN cr.PerformanceData = {"a"}
  /\ cr.PerfOrder = <<"a">>
  /\ cr.PerformanceData["a"] = lastCall.metric

\* C7: UpdatePerformanceData(name, m) on a report from NewCheckResult()
\* returns normally with PerformanceData[name] = m and the other entries as
\* they were, whether or not name was stored: the name is a key of
\* PerformanceData exactly as after AddPerformanceData(name, m).
C7_UpdateIsUpsert ==
  [][ ( /\ pc = "running"
        /\ lastCall'.op = "UpdatePerformanceData" )
      => /\ pc' = "running"
         /\ cr'.PerformanceData
              = MapPut(cr.PerformanceData, lastCall'.name, lastCall'.metric)
         /\ cr'.PerformanceData
              = AddPerformanceData(cr, lastCall'.name, lastCall'.metric).cr.PerformanceData
    ]_vars

\* an Update has stored "a" on a report no Add or Delete was ever called on
C7_Witness ==
  /\ pc = "running"
  /\ lastCall.op = "UpdatePerformanceData"
  /\ lastCall.name = "a"
  /\ noDelete
  /\ firstAdded = <<>>
  /\ DOMAIN cr.PerformanceData = {"a"}
  /\ cr.PerformanceData["a"] = lastCall.metric

\* C8: UpdatePerformanceData with a name that is already stored changes the
\* stored metric of that name and nothing else: PerfOrder, perfIndexMap, the
\* other metrics, exit code, message and format are as before.
C8_UpdateStoredFrame ==
  [][ ( /\ pc = "running"
        /\ lastCall'.op = "UpdatePerformanceData"
        /\ lastCall'.name \in DOMAIN cr.PerformanceData )
      => /\ pc' = "running"
         /\ cr' = [cr EXCEPT !.PerformanceData[lastCall'.name] = lastCall'.metric]
    ]_vars

\* "a", added first and before "b", was updated after a SetResult
C8_Witness ==
  /\ pc = "running"
  /\ lastCall.op = "UpdatePerformanceData"
  /\ lastCall.name = "a"
  /\ lastCall.metric = MetricPool[2]
  /\ noDelete
  /\ firstAdded = <<"a", "b">>
  /\ cr.PerfOrder = <<"a", "b">>
  /\ cr.ExitCode = 100
  /\ cr.PerformanceData = [x \in {"a", "b"} |->
                             IF x = "a" THEN MetricPool[2] ELSE MetricPool[1]]

\* C9: after DeletePerformanceData(name) with name stored, name is a key of
\* PerformanceData no more and is not in PerfOrder; with name not stored
\* the call returns normally and changes no field of the report.
C9_DeleteRemovesOrNoOp ==
  [][ ( /\ pc = "running"
        /\ lastCall'.op = "DeletePerformanceData" )
      => IF lastCall'.name \in DOMAIN cr.PerformanceData
         THEN /\ lastCall'.name \notin DOMAIN cr'.PerformanceData
              /\ lastCall'.name \notin Range(cr'.PerfOrder)
         ELSE /\ pc' = "running"
              /\ cr' = cr ]_vars

\* "a", added after "b", was deleted: the index entry that line 152 of
\* gomonitor.go writes for the removed last element is there
C9_Witness ==
  /\ pc = "running"
  /\ lastCall.op = "DeletePerformanceData"
  /\ lastCall.name = "a"
  /\ DOMAIN cr.PerformanceData = {"b"}
  /\ cr.PerfOrder = <<"b">>
  /\ DOMAIN cr.perfIndexMap = {"a", "b"}

\* C10: the report NewCheckResult() returns has exit code OK, an empty
\* message, the format "%s - %s", an empty non-nil PerformanceData and an
\* empty non-nil PerfOrder, and no call made first on it panics.
C10_NewCheckResultDefaults ==
  [][ lastCall.op = "NewCheckResult"
      => /\ cr.ExitCode = OK
         /\ cr.Message = ""
         /\ cr.Format = <<"%s", " - ", "%s">>
         /\ cr.PerformanceData = EmptyMap
         /\ cr.PerfOrder = <<>>
         /\ "PerformanceData" \notin cr.nil
         /\ "PerfOrder" \notin cr.nil
         /\ pc' # "panicked" ]_vars

\* UpdatePerformanceData was the first metric call on the new report
C10_Witness ==
  /\ pc = "running"
  /\ lastCall.op = "UpdatePerformanceData"
  /\ noDelete
  /\ firstAdded = <<>>
  /\ cr.ExitCode = OK
  /\ cr.Message = ""
  /\ cr.PerfOrder = <<>>
  /\ Cardinality(DOMAIN cr.PerformanceData) = 1

\* C11: AddPerformanceData as the first call on the zero value CheckResult{}
\* (both maps and the slice nil) returns normally and leaves the maps and
\* the slice non-nil, holding the added name alone: PerformanceData,
\* PerfOrder and perfIndexMap are then what the same call leaves on a report
\* from NewCheckResult(), so that every later call finds the same data.
C11_AddOnZeroValue ==
  [][ ( /\ lastCall.op = "CheckResult{}"
        /\ lastCall'.op = "AddPerformanceData" )
      => LET name == lastCall'.name
             onNew == AddPerformanceData(NewCheckResult, name, lastCall'.metric).cr
         IN  /\ pc' = "running"
             /\ cr'.nil = {}
             /\ cr'.PerformanceData = [x \in {name} |-> lastCall'.metric]
             /\ cr'.PerfOrder = <<name>>
             /\ cr'.perfIndexMap = [x \in {name} |-> 0]
             /\ cr'.PerformanceData = onNew.PerformanceData
             /\ cr'.PerfOrder = onNew.PerfOrder
             /\ cr'.perfIndexMap = onNew.perfIndexMap
             /\ cr'.nil = onNew.nil ]_vars

\* "a" was added to a zero value report (its format is still empty)
C11_Witness ==
  /\ pc = "running"
  /\ lastCall.op = "AddPerformanceData"
  /\ lastCall.name = "a"
  /\ noDelete
  /\ firstAdded = <<"a">>
  /\ cr.Format = <<>>
  /\ cr.nil = {}
  /\ cr.PerfOrder = <<"a">>
  /\ DOMAIN cr.PerformanceData = {"a"}

\* C12: the exit code and the message of the report are always the
\* arguments of the latest SetResult call (OK and "" before the first one),
\* whatever the code and the message are; and a SetResult call returns
\* normally and changes no other field of the report, writes nothing and
\* does not exit.
C12_SetResultSetsOnly ==
  /\ [](cr.ExitCode = lastSet[1] /\ cr.Message = lastSet[2])
  /\ [][ ( /\ pc = "running"
           /\ lastCall'.op = "SetResult" )
         => /\ pc' = "running"
            /\ cr' = [cr EXCEPT !.ExitCode = lastSet'[1], !.Message = lastSet'[2]]
            /\ stdout' = stdout
            /\ exitStatus' = exitStatus ]_vars

\* SetResult(-12, "") was called on a report that holds the metric "a"
C12_Witness ==
  /\ pc = "running"
  /\ lastCall.op = "SetResult"
  /\ lastSet = <<-12, "">>
  /\ cr.ExitCode = -12
  /\ cr.Message = ""
  /\ cr.PerfOrder = <<"a">>
  /\ DOMAIN cr.PerformanceData = {"a"}

\* C13: String() of the report's exit code is "OK", "Warning", "Critical",
\* "Unknown" for 0, 1, 2, 3 and "ExitCode(<n>)" with the decimal number,
\* sign included, for every other value; and the string FormatResult
\* returns starts with that name, so the call never fails.
C13_StringIsTotal ==
  LET name == [ec \in ExitCodes |->
                 CASE ec = 0 -> "OK"
                   [] ec = 1 -> "Warning"
                   [] ec = 2 -> "Critical"
                   [] ec = 3 -> "Unknown"
                   [] ec = -12 -> "ExitCode(-12)"
                   [] ec = -1 -> "ExitCode(-1)"
                   [] ec = 4 -> "ExitCode(4)"
                   [] ec = 100 -> "ExitCode(100)"
                   [] ec = 255 -> "ExitCode(255)"
                   [] ec = 256 -> "ExitCode(256)"]
      perf == IF DOMAIN cr.PerformanceData = {} THEN ""
              ELSE " | " \o PerformanceDataStr(cr.PerfOrder, cr.PerformanceData)
  IN  /\ cr.ExitCode \in ExitCodes
      /\ ExitCodeString(cr.ExitCode) = name[cr.ExitCode]
      /\ lastCall.op = "FormatResult"
           => lastCall.ret = name[cr.ExitCode] \o " - " \o cr.Message \o perf

\* FormatResult was called on a report whose exit code is -12
C13_Witness ==
  /\ lastCall.op = "FormatResult"
  /\ cr.ExitCode = -12
  /\ lastCall.ret = "ExitCode(-12) - msg"

\* C14: Int() of the report's exit code is the code's own integer, for the
\* four known codes and for every other value, and it is the status the
\* process exits with.
C14_IntIsUnderlying ==
  /\ ExitCodeInt(cr.ExitCode) = cr.ExitCode
  /\ \A ec \in ExitCodes : ExitCodeInt(ec) = ec
  /\ ExitCodeInt(OK) = 0 /\ ExitCodeInt(Warning) = 1
  /\ ExitCodeInt(Critical) = 2 /\ ExitCodeInt(Unknown) = 3
  /\ pc = "exited" => exitStatus = <<lastSet[1]>>

\* the process exited after SetResult(4, ...): a value just above Unknown
C14_Witness ==
  /\ pc = "exited"
  /\ lastSet[1] = 4
  /\ cr.ExitCode = 4
  /\ exitStatus = <<4>>

\* C15: FormatResult on a report built by NewCheckResult that stores no
\* metric, none added yet or every added one deleted again, returns the
\* status name, " - " and the message, and nothing after the message.
C15_FormatWithoutMetrics ==
  ( /\ lastCall.op = "FormatResult"
    /\ DOMAIN cr.PerformanceData = {} )
  => /\ cr.Format = DefaultFormat
     /\ lastCall.ret = ExitCodeString(cr.ExitCode) \o " - " \o cr.Message

\* FormatResult was called after the only metric added was deleted again
C15_Witness ==
  /\ lastCall.op = "FormatResult"
  /\ "a" \in deleted
  /\ DOMAIN cr.PerformanceData = {}
  /\ cr.PerfOrder = <<>>
  /\ lastCall.ret = "Critical - msg"

\* C16: FormatResult on a report that stores at least one metric returns
\* the status name, " - ", the message, " | ", and then for each name of
\* PerfOrder, in PerfOrder's order, the token
\* '<name>'=<value><unit>;<warn>;<crit>;<min>;<max> followed by one space;
\* the unit is copied as it is, empty or not.
C16_FormatWithMetrics ==
  LET line == ExitCodeString(cr.ExitCode) \o " - " \o cr.Message
      token(i) ==
        IF i > Len(cr.PerfOrder) THEN ""
        ELSE LET name == cr.PerfOrder[i]
                 m == cr.PerformanceData[name]
             IN  "'" \o name \o "'=" \o FormatFloat2(m.Value) \o m.UnitOM
                   \o ";" \o FormatFloat2(m.Warn) \o ";" \o FormatFloat2(m.Crit)
                   \o ";" \o FormatFloat2(m.Min) \o ";" \o FormatFloat2(m.Max)
                   \o " "
  IN  ( /\ lastCall.op = "FormatResult"
        /\ DOMAIN cr.PerformanceData # {} )
      => /\ Len(cr.PerfOrder) <= Len(NamePool)
         /\ lastCall.ret = line \o " | " \o token(1) \o token(2) \o token(3)
                                         \o token(4) \o token(5)

\* FormatResult was called on a report holding "b", with an empty unit,
\* before "a"
C16_Witness ==
  /\ lastCall.op = "FormatResult"
  /\ cr.PerfOrder = <<"b", "a">>
  /\ lastCall.ret = "ExitCode(100) - msg | 'b'=-0.38;0.00;0.50;-1.00;1.00 'a'=1.12ms;1.00;2.00;0.00;10.00 "

\* C17: every numeric field of every stored metric (value, warn, crit, min,
\* max; zero, negative, with one, two or three fractional digits) is
\* rendered as an optional minus sign, the whole part, a point and exactly
\* two digits, the number shown being within half a hundredth of the field.
C17_TwoDecimals ==
  \A name \in DOMAIN cr.PerformanceData :
    LET m == cr.PerformanceData[name]
    IN  \A n \in {m.Value, m.Warn, m.Crit, m.Min, m.Max} :
          LET a == IF n < 0 THEN -n ELSE n
              low == IF 100 * a < 4 THEN 0 ELSE (100 * a - 4) \div 8
          IN  \E h \in low..(low + 2), d1, d2 \in 0..9 :
                /\ h % 100 = 10 * d1 + d2
                /\ 8 * h - 100 * a \in -4..4
                /\ FormatFloat2(n) =
                     (IF n < 0 THEN "-" ELSE "") \o NatToStr(h \div 100) \o "."
                       \o DigitChars[d1 + 1] \o DigitChars[d2 + 1]

\* FormatResult was called on a report whose metric has the value 42.5 and
\* the thresholds 0.125, 0.25, 0.375 and 0.875
C17_Witness ==
  /\ lastCall.op = "FormatResult"
  /\ DOMAIN cr.PerformanceData = {"a"}
  /\ cr.PerformanceData["a"].Value = 340
  /\ lastCall.ret = "OK -  | 'a'=42.50B;0.12;0.25;0.38;0.88 "

\* C18: a FormatResult call changes no field of the report (exit code,
\* message, format, PerformanceData, PerfOrder, perfIndexMap), writes
\* nothing and does not end the process; and the string it returns is the
\* string a second call made right after it returns.
C18_FormatResultIsPure ==
  [][ ( /\ pc = "running"
        /\ lastCall'.op = "FormatResult" )
      => /\ cr' = cr
         /\ pc' = "running"
         /\ stdout' = stdout
         /\ exitStatus' = exitStatus
         /\ lastCall'.ret = FormatResult(cr')
         /\ lastCall.op = "FormatResult" => lastCall'.ret = lastCall.ret ]_vars

\* FormatResult was called on a report that holds two metrics after a delete
C18_Witness ==
  /\ pc = "running"
  /\ lastCall.op = "FormatResult"
  /\ ~noDelete
  /\ cr.PerfOrder = <<"c", "b">>
  /\ lastCall.ret = FormatResult(cr)

\* C19: once SendResult has run, standard output holds one write, the string
\* FormatResult returns for the report followed by a newline; the process
\* has not exited before that write; it then exits with Int() of the
\* report's exit code; and the report is the same from the rendering to the
\* exit.
C19_SendResultPrintsThenExits ==
  /\ [](pc \in {"exit", "exited"}
          => /\ output = FormatResult(cr)
             /\ stdout = <<FormatResult(cr) \o "\n">>)
  /\ [](pc = "exit" => exitStatus = <<>>)
  /\ [](pc = "exited" => exitStatus = <<ExitCodeInt(cr.ExitCode)>>)
  /\ [][ (pc = "running" /\ pc' = "exit")
         => /\ cr' = cr
            /\ stdout' = Append(stdout, FormatResult(cr) \o "\n") ]_vars
  /\ [][ pc = "exit"
         => /\ pc' = "exited"
            /\ cr' = cr
            /\ stdout' = stdout ]_vars

\* SendResult ran to its end on a report with the exit code 256 and a metric
C19_Witness ==
  /\ pc = "exited"
  /\ lastCall.op = "SendResult"
  /\ exitStatus = <<256>>
  /\ stdout = <<"ExitCode(256) - msg | 'a'=42.50B;0.12;0.25;0.38;0.88 \n">>

\* C20: the process ends in SendResult only, and only SendResult writes to
\* standard output: whenever the process is no longer running its calls,
\* the last call made is SendResult, and as long as SendResult has not been
\* called nothing is written and no exit status is set.
C20_SendResultSoleTerminal ==
  /\ pc # "running" => lastCall.op = "SendResult"
  /\ lastCall.op # "SendResult" => stdout = <<>> /\ exitStatus = <<>>

\* C21: in the state a SetResult, Add-, Update- or DeletePerformanceData
\* call has left, the same call with the same arguments made once more
\* returns normally and leaves exit code, message, format, PerformanceData
\* and PerfOrder as they are: twice in a row is the same as once.
C21_MutationsAreIdempotent ==
  LET again ==
        CASE lastCall.op = "SetResult" -> SetResult(cr, lastSet[1], lastSet[2])
          [] lastCall.op = "AddPerformanceData" ->
               AddPerformanceData(cr, lastCall.name, lastCall.metric)
          [] lastCall.op = "UpdatePerformanceData" ->
               UpdatePerformanceData(cr, lastCall.name, lastCall.metric)
          [] lastCall.op = "DeletePerformanceData" ->
               DeletePerformanceData(cr, lastCall.name)
          [] OTHER -> Returned(cr)
  IN  /\ ~again.panic
      /\ again.cr.ExitCode = cr.ExitCode
      /\ again.cr.Message = cr.Message
      /\ again.cr.Format = cr.Format
      /\ again.cr.PerformanceData = cr.PerformanceData
      /\ again.cr.PerfOrder = cr.PerfOrder

\* DeletePerformanceData("a") has moved the last name into a's slot
C21_Witness ==
  /\ pc = "running"
  /\ lastCall.op = "DeletePerformanceData"
  /\ lastCall.name = "a"
  /\ "a" \notin DOMAIN cr.PerformanceData
  /\ cr.PerfOrder = <<"c", "b">>
  /\ DeletePerformanceData(cr, "a").cr.PerfOrder = <<"c", "b">>

\* C22: whenever FormatResult is called on a report that stores a metric,
\* the string it returns has something after " | ", and the names whose
\* tokens it shows, those of PerfOrder, are exactly the stored names, one
\* token each.
C22_EveryMetricIsRendered ==
  ( /\ lastCall.op = "FormatResult"
    /\ DOMAIN cr.PerformanceData # {} )
  => /\ lastCall.ret # ExitCodeString(cr.ExitCode) \o " - " \o cr.Message \o " | "
     /\ DOMAIN cr.PerformanceData \subseteq Range(cr.PerfOrder)
     /\ Len(cr.PerfOrder) = Cardinality(DOMAIN cr.PerformanceData)

\* C23: a DeletePerformanceData(name) call that returns leaves every other
\* name of PerfOrder in PerfOrder, leaves every other stored name stored
\* with the metric it had, and leaves exit code, message and format alone.
C23_DeleteAffectsOnlyName ==
  [][ ( /\ pc = "running"
        /\ lastCall'.op = "DeletePerformanceData"
        /\ pc' = "running" )
      => LET name == lastCall'.name
         IN  /\ Range(cr.PerfOrder) \ {name} \subseteq Range(cr'.PerfOrder)
             /\ \A x \in DOMAIN cr.PerformanceData \ {name} :
                   /\ x \in DOMAIN cr'.PerformanceData
                   /\ cr'.PerformanceData[x] = cr.PerformanceData[x]
             /\ cr'.ExitCode = cr.ExitCode
             /\ cr'.Message = cr.Message
             /\ cr'.Format = cr.Format ]_vars

\* C24: in every state reached from NewCheckResult() or from the zero value
\* CheckResult{} by Add-, Update- and DeletePerformanceData calls, every
\* name of PerfOrder is a key of PerformanceData and no name is in
\* PerfOrder twice.
C24_OrderWithinData ==
  /\ Range(cr.PerfOrder) \subseteq DOMAIN cr.PerformanceData
  /\ \A i, j \in 1..Len(cr.PerfOrder) :
        cr.PerfOrder[i] = cr.PerfOrder[j] => i = j
  /\ Len(cr.PerfOrder) <= Cardinality(DOMAIN cr.PerformanceData)

\* on a report that started as the zero value, after a delete, "a" was
\* stored by Update while "b" is the only name of PerfOrder
C24_Witness ==
  /\ pc = "running"
  /\ cr.Format = <<>>
  /\ ~noDelete
  /\ lastCall.op = "UpdatePerformanceData"
  /\ lastCall.name = "a"
  /\ cr.PerfOrder = <<"b">>
  /\ DOMAIN cr.PerformanceData = {"a", "b"}

\* C25: PerformanceData is a plain map: it is empty in NewCheckResult(),
\* every Add or Update call that returns leaves it as the old map with
\* name put to metric, every Delete call that returns leaves it as the old
\* map with name removed, and no other call changes it; so after any
\* sequence of calls it is the map the same puts and removes build.
C25_DataIsPlainMap ==
  /\ [](lastCall.op = "NewCheckResult" => cr.PerformanceData = EmptyMap)
  /\ [][ pc' # "panicked"
         => LET name == lastCall'.name
                old == cr.PerformanceData
            IN  cr'.PerformanceData =
                  CASE lastCall'.op \in {"AddPerformanceData", "UpdatePerformanceData"} ->
                         [x \in DOMAIN old \cup {name} |->
                            IF x = name THEN lastCall'.metric ELSE old[x]]
                    [] lastCall'.op = "DeletePerformanceData" ->
                         [x \in DOMAIN old \ {name} |-> old[x]]
                    [] OTHER -> old ]_vars

\* after Add, Update and Delete calls that moved names around in PerfOrder,
\* "b" holds the metric of the Add that overwrote it
C25_Witness ==
  /\ pc = "running"
  /\ ~noDelete
  /\ lastCall.op = "AddPerformanceData"
  /\ lastCall.name = "b"
  /\ lastCall.metric = MetricPool[2]
  /\ cr.PerfOrder = <<"c", "b">>
  /\ DOMAIN cr.PerformanceData = {"a", "b", "c"}
  /\ cr.PerformanceData["b"] = MetricPool[2]

\* C26: perfIndexMap has an entry for exactly the names of PerfOrder, and
\* after a DeletePerformanceData(name) call it has no entry for name.
C26_IndexKeysAreOrderNames ==
  /\ DOMAIN cr.perfIndexMap = Range(cr.PerfOrder)
  /\ lastCall.op = "DeletePerformanceData"
       => lastCall.name \notin DOMAIN cr.perfIndexMap

\* C27: for every position i of PerfOrder, counted from 0 as the code
\* counts, perfIndexMap has an entry for the name at i and the entry is i.
C27_IndexIsPosition ==
  \A i \in 1..Len(cr.PerfOrder) :
    /\ cr.PerfOrder[i] \in DOMAIN cr.perfIndexMap
    /\ cr.perfIndexMap[cr.PerfOrder[i]] = i - 1

\* DeletePerformanceData("a") has moved "c" from the last slot to slot 0
C27_Witness ==
  /\ pc = "running"
  /\ lastCall.op = "DeletePerformanceData"
  /\ lastCall.name = "a"
  /\ cr.PerfOrder = <<"c", "b">>
  /\ cr.perfIndexMap = [x \in {"b", "c"} |-> IF x = "c" THEN 0 ELSE 1]

====
